---- MODULE Spec2Model ----
(***************************************************************************)
(* Model of appc.Conn25: the connector's per-peer TransitIP ->             *)
(* DestinationIP registry (HandleConnectorTransitIPRequest,                *)
(* handleTransitIPRequest, transitIPTarget) run by concurrent goroutines   *)
(* that share one Conn25 value and its sync.Mutex.                         *)
(***************************************************************************)
EXTENDS Integers, Sequences, FiniteSets, TLC

\* ---- bounds of the model ------------------------------------------------
NumRegister == 2        \* goroutines that each run one HandleConnectorTransitIPRequest
NumLookup == 1          \* goroutines that run transitIPTarget, again and again
NumPeers == 2           \* tailcfg.NodeID values in use
NumTransit == 2         \* transit addresses in use
NumDest == 2            \* destination addresses in use
MaxLen == 2             \* longest ConnectorTransitIPRequest.TransitIPs
MaxLongLen == 3         \* longest request of the one long caller of SpecLong
MaxChain == 2           \* longest chain of causes of an error

\* ---- program constants --------------------------------------------------
OK == 0
OtherFailure == 1
dupeTransitIPMessage == "Duplicate transit address in ConnectorTransitIPRequest"

\* netip.Addr{}: the zero address, what a Go map read yields for a missing key
ZeroAddr == 0

RegThreads == 1..NumRegister
LookThreads == (NumRegister + 1)..(NumRegister + NumLookup)
Threads == RegThreads \cup LookThreads
NodeIDs == 1..NumPeers
TransitAddrs == 1..NumTransit
DestAddrs == 1..NumDest
NoThread == 0
\* a nil error: the empty chain of causes
NilErr == <<>>

\* TransitIPRequest and the slices of them a request can carry
TransitIPRequest == [TransitIP : TransitAddrs, DestinationIP : DestAddrs]
SeqsUpTo(S, n) == UNION {[1..k -> S] : k \in 0..n}
ConnectorTransitIPRequest == SeqsUpTo(TransitIPRequest, MaxLen)
LongRequests == SeqsUpTo(TransitIPRequest, MaxLongLen)
ShortRequests == SeqsUpTo(TransitIPRequest, 1)

\* (mutant) the duplicate's failure carries no message
RespDupe_NoMessage == [Code |-> OtherFailure, Message |-> ""]

\* TransitIPResponse values the handler builds
RespOK == [Code |-> OK, Message |-> ""]
RespDupe == [Code |-> OtherFailure, Message |-> dupeTransitIPMessage]

\* ---- the map map[NodeID]map[Addr]Addr ------------------------------------
EmptyMap == [x \in {} |-> ZeroAddr]
\* the zero Conn25: transitIPs is a nil map
NilTransitIPs == [isNil |-> TRUE, m |-> EmptyMap]

\* (mutant) the address is looked up in whatever peer's map holds it
transitIPTarget_AnyPeer(t, n, a) ==
    IF \E p \in DOMAIN t.m : a \in DOMAIN t.m[p]
    THEN t.m[CHOOSE p \in DOMAIN t.m : a \in DOMAIN t.m[p]][a]
    ELSE ZeroAddr

\* c.transitIPs[nid][tip]: reads of a nil map or a missing key give the zero value
transitIPTarget(t, n, a) ==
    IF n \in DOMAIN t.m /\ a \in DOMAIN t.m[n] THEN t.m[n][a] ELSE ZeroAddr

\* one map[netip.Addr]netip.Addr with m[a] = d
MapPut(m, a, d) == [x \in DOMAIN m \cup {a} |-> IF x = a THEN d ELSE m[x]]

\* (mutant) the peer's map is made anew on every call, as if `ok` were ignored
handleTransitIPRequest_NewPeerMap(t, n, tipr) ==
    [isNil |-> FALSE,
     m |-> [p \in DOMAIN t.m \cup {n} |->
              IF p = n THEN MapPut(EmptyMap, tipr.TransitIP, tipr.DestinationIP)
                       ELSE t.m[p]]]

\* (mutant) the outer map is made anew on every call, as if the nil test were dropped
handleTransitIPRequest_NewOuterMap(t, n, tipr) ==
    [isNil |-> FALSE,
     m |-> [p \in {n} |-> MapPut(EmptyMap, tipr.TransitIP, tipr.DestinationIP)]]

\* (mutant) an address that is already mapped keeps its destination
handleTransitIPRequest_KeepOld(t, n, tipr) ==
    LET peerMap == IF n \in DOMAIN t.m THEN t.m[n] ELSE EmptyMap
        newPeer == IF tipr.TransitIP \in DOMAIN peerMap THEN peerMap
                   ELSE MapPut(peerMap, tipr.TransitIP, tipr.DestinationIP)
    IN [isNil |-> FALSE,
        m |-> [p \in DOMAIN t.m \cup {n} |-> IF p = n THEN newPeer ELSE t.m[p]]]

\* (mutant) transit and destination addresses are swapped in the store
handleTransitIPRequest_Swapped(t, n, tipr) ==
    LET peerMap == IF n \in DOMAIN t.m THEN t.m[n] ELSE EmptyMap
    IN [isNil |-> FALSE,
        m |-> [p \in DOMAIN t.m \cup {n} |->
                 IF p = n THEN MapPut(peerMap, tipr.DestinationIP, tipr.TransitIP)
                          ELSE t.m[p]]]

\* (mutant) the mapping is stored for every peer that has a map, not for nid only
handleTransitIPRequest_AllPeers(t, n, tipr) ==
    [isNil |-> FALSE,
     m |-> [p \in DOMAIN t.m \cup {n} |->
              MapPut(IF p \in DOMAIN t.m THEN t.m[p] ELSE EmptyMap,
                     tipr.TransitIP, tipr.DestinationIP)]]

\* the body of handleTransitIPRequest under the lock: make the maps that are
\* missing, then peerMap[tipr.TransitIP] = tipr.DestinationIP
handleTransitIPRequest(t, n, tipr) ==
    LET peerMap == IF n \in DOMAIN t.m THEN t.m[n] ELSE EmptyMap
    IN [isNil |-> FALSE,
        m |-> [p \in DOMAIN t.m \cup {n} |->
                 IF p = n THEN MapPut(peerMap, tipr.TransitIP, tipr.DestinationIP)
                          ELSE t.m[p]]]

VARIABLES
    transitIPs, \* Conn25.transitIPs
    mu,         \* Conn25.mu: the goroutine that holds it, or NoThread
    pc,         \* where each goroutine is
    nid,        \* the nid argument of each goroutine's call
    ctipr,      \* HandleConnectorTransitIPRequest: the request's TransitIPs
    idx,        \* HandleConnectorTransitIPRequest: position of the range loop
    seen,       \* HandleConnectorTransitIPRequest: the local seen set
    resp,       \* HandleConnectorTransitIPRequest: resp.TransitIPs so far
    tip,        \* transitIPTarget: the tip argument
    ret,        \* transitIPTarget: the value read
    pre,        \* history: transitIPs when the goroutine's call began
    alone,      \* history: no other request has run since this one began
    perr,       \* IsClosedPipeError: the err argument, as its chain of causes
    goos,       \* IsClosedPipeError: the platform the binary is built for
    ppc,        \* IsClosedPipeError: which of the functions has been called
    pret        \* IsClosedPipeError: the value returned

pipeVars == <<perr, goos, ppc, pret>>
connVars == <<transitIPs, mu, pc, nid, ctipr, idx, seen, resp, tip, ret, pre, alone>>
vars == <<transitIPs, mu, pc, nid, ctipr, idx, seen, resp, tip, ret, pre, alone,
          perr, goos, ppc, pret>>

InitConn ==
    /\ transitIPs = NilTransitIPs
    /\ mu = NoThread
    /\ pc = [t \in Threads |-> "idle"]
    /\ nid = [t \in Threads |-> 1]
    /\ ctipr = [t \in RegThreads |-> <<>>]
    /\ idx = [t \in RegThreads |-> 1]
    /\ seen = [t \in RegThreads |-> {}]
    /\ resp = [t \in RegThreads |-> <<>>]
    /\ tip = [t \in LookThreads |-> 1]
    /\ ret = [t \in LookThreads |-> ZeroAddr]
    /\ pre = [t \in RegThreads |-> NilTransitIPs]
    /\ alone = [t \in RegThreads |-> FALSE]

\* the registry before any call; no IsClosedPipeError call is under way
Init ==
    /\ InitConn
    /\ perr = NilErr
    /\ goos = "linux"
    /\ ppc = "call"
    /\ pret = FALSE

\* a goroutine is inside HandleConnectorTransitIPRequest
InRequest(t) == pc[t] \in {"loop", "store"}

\* ---- HandleConnectorTransitIPRequest -------------------------------------
\* (mutant) the peer's map is made at entry, before any entry is looked at
CallRegister_EagerPeerMap(t, n, req) ==
    /\ pc[t] = "idle"
    /\ pc' = [pc EXCEPT ![t] = "loop"]
    /\ nid' = [nid EXCEPT ![t] = n]
    /\ ctipr' = [ctipr EXCEPT ![t] = req]
    /\ idx' = [idx EXCEPT ![t] = 1]
    /\ seen' = [seen EXCEPT ![t] = {}]
    /\ resp' = [resp EXCEPT ![t] = <<>>]
    /\ pre' = [pre EXCEPT ![t] = transitIPs]
    /\ alone' = [u \in RegThreads |->
                    IF u = t THEN \A v \in RegThreads \ {t} : ~InRequest(v) ELSE FALSE]
    /\ transitIPs' = [isNil |-> FALSE,
                      m |-> [p \in DOMAIN transitIPs.m \cup {n} |->
                               IF p \in DOMAIN transitIPs.m THEN transitIPs.m[p]
                               ELSE EmptyMap]]
    /\ UNCHANGED <<mu, tip, ret>>
    /\ UNCHANGED pipeVars

\* entry: resp := {}, seen := {}
CallRegister(t, n, req) ==
    /\ pc[t] = "idle"
    /\ pc' = [pc EXCEPT ![t] = "loop"]
    /\ nid' = [nid EXCEPT ![t] = n]
    /\ ctipr' = [ctipr EXCEPT ![t] = req]
    /\ idx' = [idx EXCEPT ![t] = 1]
    /\ seen' = [seen EXCEPT ![t] = {}]
    /\ resp' = [resp EXCEPT ![t] = <<>>]
    /\ pre' = [pre EXCEPT ![t] = transitIPs]
    /\ alone' = [u \in RegThreads |->
                    IF u = t THEN \A v \in RegThreads \ {t} : ~InRequest(v) ELSE FALSE]
    /\ UNCHANGED <<transitIPs, mu, tip, ret>>
    /\ UNCHANGED pipeVars

\* (mutant) the duplicate is answered like a stored entry
LoopDuplicate_AppendOK(t) ==
    /\ pc[t] = "loop"
    /\ idx[t] <= Len(ctipr[t])
    /\ ctipr[t][idx[t]].TransitIP \in seen[t]
    /\ resp' = [resp EXCEPT ![t] = Append(@, RespOK)]
    /\ idx' = [idx EXCEPT ![t] = @ + 1]
    /\ UNCHANGED <<transitIPs, mu, pc, nid, ctipr, seen, tip, ret, pre, alone>>
    /\ UNCHANGED pipeVars

\* (mutant) the loop is left at the first duplicate: break for continue
LoopDuplicate_Break(t) ==
    /\ pc[t] = "loop"
    /\ idx[t] <= Len(ctipr[t])
    /\ ctipr[t][idx[t]].TransitIP \in seen[t]
    /\ resp' = [resp EXCEPT ![t] = Append(@, RespDupe)]
    /\ idx' = [idx EXCEPT ![t] = Len(ctipr[t]) + 1]
    /\ UNCHANGED <<transitIPs, mu, pc, nid, ctipr, seen, tip, ret, pre, alone>>
    /\ UNCHANGED pipeVars

\* (mutant) the duplicate is skipped without a response of its own
LoopDuplicate_NoAppend(t) ==
    /\ pc[t] = "loop"
    /\ idx[t] <= Len(ctipr[t])
    /\ ctipr[t][idx[t]].TransitIP \in seen[t]
    /\ idx' = [idx EXCEPT ![t] = @ + 1]
    /\ UNCHANGED <<transitIPs, mu, pc, nid, ctipr, seen, resp, tip, ret, pre, alone>>
    /\ UNCHANGED pipeVars

\* loop body, seen[each.TransitIP] is true: append the failure, continue
LoopDuplicate(t) ==
    /\ pc[t] = "loop"
    /\ idx[t] <= Len(ctipr[t])
    /\ ctipr[t][idx[t]].TransitIP \in seen[t]
    /\ resp' = [resp EXCEPT ![t] = Append(@, RespDupe)]
    /\ idx' = [idx EXCEPT ![t] = @ + 1]
    /\ UNCHANGED <<transitIPs, mu, pc, nid, ctipr, seen, tip, ret, pre, alone>>
    /\ UNCHANGED pipeVars

\* (mutant) handleTransitIPRequest goes on without waiting for c.mu
HandleLock_NoWait(t) ==
    /\ pc[t] = "loop"
    /\ idx[t] <= Len(ctipr[t])
    /\ ctipr[t][idx[t]].TransitIP \notin seen[t]
    /\ mu' = t
    /\ pc' = [pc EXCEPT ![t] = "store"]
    /\ UNCHANGED <<transitIPs, nid, ctipr, idx, seen, resp, tip, ret, pre, alone>>
    /\ UNCHANGED pipeVars

\* loop body, not seen: call handleTransitIPRequest, which takes c.mu
HandleLock(t) ==
    /\ pc[t] = "loop"
    /\ idx[t] <= Len(ctipr[t])
    /\ ctipr[t][idx[t]].TransitIP \notin seen[t]
    /\ mu = NoThread
    /\ mu' = t
    /\ pc' = [pc EXCEPT ![t] = "store"]
    /\ UNCHANGED <<transitIPs, nid, ctipr, idx, seen, resp, tip, ret, pre, alone>>
    /\ UNCHANGED pipeVars

\* (mutant) handleTransitIPRequest returns without Unlock: the defer is missing
HandleStore_KeepLock(t) ==
    /\ pc[t] = "store"
    /\ LET each == ctipr[t][idx[t]] IN
        /\ transitIPs' = handleTransitIPRequest(transitIPs, nid[t], each)
        /\ seen' = [seen EXCEPT ![t] = @ \cup {each.TransitIP}]
    /\ resp' = [resp EXCEPT ![t] = Append(@, RespOK)]
    /\ idx' = [idx EXCEPT ![t] = @ + 1]
    /\ pc' = [pc EXCEPT ![t] = "loop"]
    /\ UNCHANGED <<mu, nid, ctipr, tip, ret, pre, alone>>
    /\ UNCHANGED pipeVars

\* (mutant) an address the peer had already registered is answered OtherFailure
HandleStore_FlagExisting(t) ==
    /\ pc[t] = "store"
    /\ LET each == ctipr[t][idx[t]]
           had == nid[t] \in DOMAIN transitIPs.m
                    /\ each.TransitIP \in DOMAIN transitIPs.m[nid[t]]
       IN
        /\ transitIPs' = handleTransitIPRequest(transitIPs, nid[t], each)
        /\ seen' = [seen EXCEPT ![t] = @ \cup {each.TransitIP}]
        /\ resp' = [resp EXCEPT ![t] = Append(@, IF had THEN RespDupe ELSE RespOK)]
    /\ mu' = NoThread
    /\ idx' = [idx EXCEPT ![t] = @ + 1]
    /\ pc' = [pc EXCEPT ![t] = "loop"]
    /\ UNCHANGED <<nid, ctipr, tip, ret, pre, alone>>
    /\ UNCHANGED pipeVars

\* (mutant) the address is not recorded in seen after the call
HandleStore_NoSeen(t) ==
    /\ pc[t] = "store"
    /\ transitIPs' = handleTransitIPRequest(transitIPs, nid[t], ctipr[t][idx[t]])
    /\ mu' = NoThread
    /\ resp' = [resp EXCEPT ![t] = Append(@, RespOK)]
    /\ idx' = [idx EXCEPT ![t] = @ + 1]
    /\ pc' = [pc EXCEPT ![t] = "loop"]
    /\ UNCHANGED <<nid, ctipr, seen, tip, ret, pre, alone>>
    /\ UNCHANGED pipeVars

\* handleTransitIPRequest under the lock, its deferred Unlock and return,
\* then seen[each.TransitIP] = true and the append of its response
HandleStore(t) ==
    /\ pc[t] = "store"
    /\ LET each == ctipr[t][idx[t]] IN
        /\ transitIPs' = handleTransitIPRequest(transitIPs, nid[t], each)
        /\ seen' = [seen EXCEPT ![t] = @ \cup {each.TransitIP}]
    /\ mu' = NoThread
    /\ resp' = [resp EXCEPT ![t] = Append(@, RespOK)]
    /\ idx' = [idx EXCEPT ![t] = @ + 1]
    /\ pc' = [pc EXCEPT ![t] = "loop"]
    /\ UNCHANGED <<nid, ctipr, tip, ret, pre, alone>>
    /\ UNCHANGED pipeVars

\* the range loop is over: return resp
ReturnResp(t) ==
    /\ pc[t] = "loop"
    /\ idx[t] > Len(ctipr[t])
    /\ pc' = [pc EXCEPT ![t] = "done"]
    /\ UNCHANGED <<transitIPs, mu, nid, ctipr, idx, seen, resp, tip, ret, pre, alone>>
    /\ UNCHANGED pipeVars

\* ---- transitIPTarget -----------------------------------------------------
CallLookup(t, n, a) ==
    /\ pc[t] \in {"idle", "returned"}
    /\ pc' = [pc EXCEPT ![t] = "lock"]
    /\ nid' = [nid EXCEPT ![t] = n]
    /\ tip' = [tip EXCEPT ![t] = a]
    /\ ret' = [ret EXCEPT ![t] = ZeroAddr]
    /\ UNCHANGED <<transitIPs, mu, ctipr, idx, seen, resp, pre, alone>>
    /\ UNCHANGED pipeVars

\* c.mu.Lock()
TargetLock(t) ==
    /\ pc[t] = "lock"
    /\ mu = NoThread
    /\ mu' = t
    /\ pc' = [pc EXCEPT ![t] = "read"]
    /\ UNCHANGED <<transitIPs, nid, ctipr, idx, seen, resp, tip, ret, pre, alone>>
    /\ UNCHANGED pipeVars

\* (mutant) the read makes the maps it does not find, as the store does
TargetRead_MakeMaps(t) ==
    /\ pc[t] = "read"
    /\ ret' = [ret EXCEPT ![t] = transitIPTarget(transitIPs, nid[t], tip[t])]
    /\ transitIPs' = [isNil |-> FALSE,
                      m |-> [p \in DOMAIN transitIPs.m \cup {nid[t]} |->
                               IF p \in DOMAIN transitIPs.m THEN transitIPs.m[p]
                               ELSE EmptyMap]]
    /\ mu' = NoThread
    /\ pc' = [pc EXCEPT ![t] = "returned"]
    /\ UNCHANGED <<nid, ctipr, idx, seen, resp, tip, pre, alone>>
    /\ UNCHANGED pipeVars

\* return c.transitIPs[nid][tip], with the deferred Unlock
TargetRead(t) ==
    /\ pc[t] = "read"
    /\ ret' = [ret EXCEPT ![t] = transitIPTarget(transitIPs, nid[t], tip[t])]
    /\ mu' = NoThread
    /\ pc' = [pc EXCEPT ![t] = "returned"]
    /\ UNCHANGED <<transitIPs, nid, ctipr, idx, seen, resp, tip, pre, alone>>
    /\ UNCHANGED pipeVars

Next ==
    \/ \E t \in RegThreads, n \in NodeIDs, req \in ConnectorTransitIPRequest :
            CallRegister(t, n, req)
    \/ \E t \in RegThreads : LoopDuplicate(t)
    \/ \E t \in RegThreads : HandleLock(t)
    \/ \E t \in RegThreads : HandleStore(t)
    \/ \E t \in RegThreads : ReturnResp(t)
    \/ \E t \in LookThreads, n \in NodeIDs, a \in TransitAddrs : CallLookup(t, n, a)
    \/ \E t \in LookThreads : TargetLock(t)
    \/ \E t \in LookThreads : TargetRead(t)

Spec == Init /\ [][Next]_vars

\* the same goroutines, but the first one sends requests of up to MaxLongLen
\* entries and the others requests of at most one entry
NextLong ==
    \/ \E n \in NodeIDs, req \in LongRequests : CallRegister(1, n, req)
    \/ \E t \in RegThreads \ {1}, n \in NodeIDs, req \in ShortRequests :
            CallRegister(t, n, req)
    \/ \E t \in RegThreads : LoopDuplicate(t)
    \/ \E t \in RegThreads : HandleLock(t)
    \/ \E t \in RegThreads : HandleStore(t)
    \/ \E t \in RegThreads : ReturnResp(t)
    \/ \E t \in LookThreads, n \in NodeIDs, a \in TransitAddrs : CallLookup(t, n, a)
    \/ \E t \in LookThreads : TargetLock(t)
    \/ \E t \in LookThreads : TargetRead(t)

SpecLong == Init /\ [][NextLong]_vars

\* requests in which every entry has the first destination address
LiveRequests ==
    {req \in ConnectorTransitIPRequest :
        \A j \in 1..Len(req) : req[j].DestinationIP = 1}

\* the same goroutines with requests from LiveRequests
NextLive ==
    \/ \E t \in RegThreads, n \in NodeIDs, req \in LiveRequests : CallRegister(t, n, req)
    \/ \E t \in RegThreads : LoopDuplicate(t)
    \/ \E t \in RegThreads : HandleLock(t)
    \/ \E t \in RegThreads : HandleStore(t)
    \/ \E t \in RegThreads : ReturnResp(t)
    \/ \E t \in LookThreads, n \in NodeIDs, a \in TransitAddrs : CallLookup(t, n, a)
    \/ \E t \in LookThreads : TargetLock(t)
    \/ \E t \in LookThreads : TargetRead(t)

\* scheduling: a goroutine that can run its next step does run it (weak
\* fairness); a goroutine blocked in c.mu.Lock() gets the mutex if it is free
\* again and again (strong fairness: sync.Mutex hands the lock to a waiter that
\* has waited long). Calls themselves are made by the callers, or not.
Fairness ==
    /\ \A t \in RegThreads :
        /\ WF_vars(LoopDuplicate(t))
        /\ SF_vars(HandleLock(t))
        /\ WF_vars(HandleStore(t))
        /\ WF_vars(ReturnResp(t))
    /\ \A t \in LookThreads :
        /\ SF_vars(TargetLock(t))
        /\ WF_vars(TargetRead(t))

SpecLive == Init /\ [][NextLive]_vars /\ Fairness


\* ---- IsClosedPipeError ----------------------------------------------------
\* the errors in play: the sentinels the functions test for, an unrelated
\* sentinel, and a wrapper (fmt.Errorf %w, *net.OpError, *os.SyscallError)
\* that is equal to no sentinel
ErrKinds ==
    {"EPIPE", "ERROR_NO_DATA", "ENOTCONN", "fs.ErrClosed", "io.ErrClosedPipe",
     "io.EOF", "wrapper"}
\* an error is the chain err, Unwrap(err), ...
Errors == SeqsUpTo(ErrKinds, MaxChain)
\* runtime.GOOS of the builds; js stands for the js || wasip1 || wasm builds
GOOSes == {"linux", "windows", "js"}

\* errors.Is(err, target): some error of the chain equals target; false for nil
errorsIs(err, target) == \E i \in 1..Len(err) : err[i] = target

\* expect: syscall.EPIPE, or syscall.Errno(232) when runtime.GOOS is windows
expect(os) == IF os = "windows" THEN "ERROR_NO_DATA" ELSE "EPIPE"

\* (mutant) neterror's function without the ENOTCONN test
neterrorPosixIsClosedPipeError_NoNotConn(os, err) ==
    \/ errorsIs(err, expect(os))
    \/ errorsIs(err, "fs.ErrClosed")
    \/ errorsIs(err, "io.ErrClosedPipe")

\* neterror.IsClosedPipeError, build !plan9 && !js && !wasip1 && !wasm
neterrorPosixIsClosedPipeError(os, err) ==
    \/ errorsIs(err, expect(os))
    \/ errorsIs(err, "ENOTCONN")
    \/ errorsIs(err, "fs.ErrClosed")
    \/ errorsIs(err, "io.ErrClosedPipe")

\* neterror.IsClosedPipeError, build js || wasip1 || wasm
neterrorWasmIsClosedPipeError(err) == FALSE

\* localapi.IsClosedPipeError, build !plan9
localapiIsClosedPipeError(os, err) ==
    IF errorsIs(err, expect(os)) THEN TRUE ELSE errorsIs(err, "io.ErrClosedPipe")

\* a caller's error and platform; the registry is not in use
InitPipe ==
    /\ InitConn
    /\ perr \in Errors
    /\ goos \in GOOSes
    /\ ppc = "call"
    /\ pret = FALSE

\* a call of neterror.IsClosedPipeError: the build tags pick the file
CallNeterror ==
    /\ ppc = "call"
    /\ pret' = IF goos = "js" THEN neterrorWasmIsClosedPipeError(perr)
               ELSE neterrorPosixIsClosedPipeError(goos, perr)
    /\ ppc' = "neterror"
    /\ UNCHANGED <<perr, goos>>
    /\ UNCHANGED connVars

\* a call of localapi.IsClosedPipeError
CallLocalapi ==
    /\ ppc = "call"
    /\ pret' = localapiIsClosedPipeError(goos, perr)
    /\ ppc' = "localapi"
    /\ UNCHANGED <<perr, goos>>
    /\ UNCHANGED connVars

NextPipe == CallNeterror \/ CallLocalapi

SpecPipe == InitPipe /\ [][NextPipe]_vars


\* ---- what the claims speak of --------------------------------------------
\* entry j of a request repeats the transit address of an earlier entry
IsDup(req, j) == \E k \in 1..(j - 1) : req[k].TransitIP = req[j].TransitIP
\* the transit addresses of a request
Tips(req) == {req[j].TransitIP : j \in DOMAIN req}
\* the destination of the first entry of req for transit address a
FirstDest(req, a) ==
    req[CHOOSE j \in DOMAIN req : req[j].TransitIP = a /\ ~IsDup(req, j)].DestinationIP
\* what Lookup(p, a) returns on the registry as it is now
Target(p, a) == transitIPTarget(transitIPs, p, a)
\* what Lookup(p, a) is to return once the first k entries of r's request have
\* been processed on top of the registry r's call found
Expected(r, k, p, a) ==
    IF p = nid[r] /\ \E j \in 1..k : ctipr[r][j].TransitIP = a
    THEN FirstDest(ctipr[r], a)
    ELSE transitIPTarget(pre[r], p, a)
\* every Register goroutine but these has not been called
OthersIdle(S) == \A x \in RegThreads \ S : pc[x] = "idle"

\* a Lookup l for r's peer reads (holding the lock) while r's batch is half
\* applied: address T1 of the batch already gives its new destination, another
\* address T2 of the batch still gives the value from before the batch
PartialBatchSeen(l, r) ==
    /\ pc[l] = "read"
    /\ InRequest(r)
    /\ nid[l] = nid[r]
    /\ \E T1 \in seen[r], T2 \in Tips(ctipr[r]) \ seen[r] :
        /\ tip[l] \in {T1, T2}
        /\ Target(nid[r], T1) = FirstDest(ctipr[r], T1)
        /\ Target(nid[r], T1) # transitIPTarget(pre[r], nid[r], T1)
        /\ Target(nid[r], T2) = transitIPTarget(pre[r], nid[r], T2)
        /\ Target(nid[r], T2) # FirstDest(ctipr[r], T2)

Serial(x, y, p, a) ==
    IF p = nid[y] /\ a \in Tips(ctipr[y]) THEN FirstDest(ctipr[y], a)
    ELSE IF p = nid[x] /\ a \in Tips(ctipr[x]) THEN FirstDest(ctipr[x], a)
    ELSE transitIPTarget(pre[x], p, a)
\* the registry equals the result of the two batches in the order x, y
IsSerial(x, y) == \A p \in NodeIDs, a \in TransitAddrs : Target(p, a) = Serial(x, y, p, a)
\* the two calls of r1 and r2, for one peer, are the only ones and have returned
TwoReturned(r1, r2) ==
    /\ r1 # r2
    /\ pc[r1] = "done" /\ pc[r2] = "done"
    /\ nid[r1] = nid[r2]
    /\ OthersIdle({r1, r2})

C3_DuplicateRejectedNotApplied ==
    \A r \in RegThreads :
        /\ \A j \in 1..Len(resp[r]) : IsDup(ctipr[r], j) => resp[r][j] = RespDupe
        /\ pc[r] = "store" => ~IsDup(ctipr[r], idx[r])
        /\ (pc[r] = "done" /\ alone[r]) =>
              \A j \in 1..Len(ctipr[r]) :
                  IsDup(ctipr[r], j) =>
                      Target(nid[r], ctipr[r][j].TransitIP)
                          = FirstDest(ctipr[r], ctipr[r][j].TransitIP)

\* C3 witness: [(T,D1),(T,D2)] gave [OK, OtherFailure] and Lookup(P,T) = D1
C3_Witness ==
    \E r \in RegThreads :
        /\ pc[r] = "done" /\ alone[r]
        /\ Len(ctipr[r]) = 2
        /\ ctipr[r][1].TransitIP = ctipr[r][2].TransitIP
        /\ ctipr[r][1].DestinationIP # ctipr[r][2].DestinationIP
        /\ resp[r] = <<RespOK, RespDupe>>
        /\ Target(nid[r], ctipr[r][1].TransitIP) = ctipr[r][1].DestinationIP

\* C4: the response has one outcome per entry, in order: outcome j is
\* OtherFailure exactly when entry j repeats an earlier transit address of the
\* batch, and OK otherwise.
C4_OneOutcomePerEntryInOrder ==
    \A r \in RegThreads :
        /\ pc[r] # "idle" => Len(resp[r]) = idx[r] - 1
        /\ pc[r] = "done" =>
            /\ Len(resp[r]) = Len(ctipr[r])
            /\ \A j \in 1..Len(ctipr[r]) :
                  resp[r][j].Code = IF IsDup(ctipr[r], j) THEN OtherFailure ELSE OK

\* C4 witness: a batch fresh, repeated, fresh has returned OK, OtherFailure, OK
C4_Witness ==
    \E r \in RegThreads :
        /\ pc[r] = "done"
        /\ Len(ctipr[r]) = 3
        /\ IsDup(ctipr[r], 2) /\ ~IsDup(ctipr[r], 3)
        /\ resp[r] = <<RespOK, RespDupe, RespOK>>

\* C5: after a Register call that ran with no other Register concurrent, every
\* transit address of the batch maps to the destination of its first
\* occurrence, and every other mapping is as the call found it.
C5_RegisterThenLookup ==
    \A r \in RegThreads :
        (pc[r] = "done" /\ alone[r]) =>
            \A p \in NodeIDs, a \in TransitAddrs :
                Target(p, a) = Expected(r, Len(ctipr[r]), p, a)

\* C5 witness: a single-pair batch [(T,D)] returned, Lookup(P,T) = D, and a
\* mapping of the same peer made before the call is still there
C5_Witness ==
    \E r \in RegThreads :
        /\ pc[r] = "done" /\ alone[r]
        /\ Len(ctipr[r]) = 1
        /\ Target(nid[r], ctipr[r][1].TransitIP) = ctipr[r][1].DestinationIP
        /\ \E a \in TransitAddrs \ Tips(ctipr[r]) :
              /\ transitIPTarget(pre[r], nid[r], a) # ZeroAddr
              /\ Target(nid[r], a) = transitIPTarget(pre[r], nid[r], a)

\* the index of the first entry of req for transit address a
FirstIdx(req, a) == CHOOSE j \in DOMAIN req : req[j].TransitIP = a /\ ~IsDup(req, j)
\* r1's call returned before r2's began, both for one peer, r2's has returned
\* and no other call has begun since
Later(r1, r2) ==
    /\ r1 # r2
    /\ pc[r1] = "done" /\ pc[r2] = "done"
    /\ alone[r2]
    /\ nid[r1] = nid[r2]

\* C6: duplicate detection is per batch: a transit address registered again in
\* a later call is not flagged, gets OK and overwrites; re-registering the
\* mappings the registry already holds leaves the registry as it was.
C6_LaterCallOverwrites ==
    \A r1, r2 \in RegThreads :
        Later(r1, r2) =>
            /\ \A a \in Tips(ctipr[r1]) \cap Tips(ctipr[r2]) :
                /\ resp[r1][FirstIdx(ctipr[r1], a)] = RespOK
                /\ resp[r2][FirstIdx(ctipr[r2], a)] = RespOK
                /\ Target(nid[r2], a) = FirstDest(ctipr[r2], a)
            /\ (\A a \in Tips(ctipr[r2]) :
                    transitIPTarget(pre[r2], nid[r2], a) = FirstDest(ctipr[r2], a))
                => transitIPs = pre[r2]

\* C6 witness: a later call for the same peer has re-registered one address
\* with a new destination and one with the same destination, all outcomes OK
C6_Witness ==
    \E r1, r2 \in RegThreads :
        /\ Later(r1, r2)
        /\ resp[r1] = <<RespOK, RespOK>> /\ resp[r2] = <<RespOK, RespOK>>
        /\ \E a, b \in Tips(ctipr[r1]) \cap Tips(ctipr[r2]) :
            /\ FirstDest(ctipr[r1], a) # FirstDest(ctipr[r2], a)
            /\ Target(nid[r2], a) = FirstDest(ctipr[r2], a)
            /\ FirstDest(ctipr[r1], b) = FirstDest(ctipr[r2], b)
            /\ Target(nid[r2], b) = FirstDest(ctipr[r2], b)

\* C7: cross-peer isolation: in every step, what Lookup(p, a) returns changes
\* only by the store of a Register call for that same peer p; and Lookup(p, a)
\* is absent unless a call for p itself has stored a.
C7_CrossPeerIsolation ==
    /\ [](\A p \in NodeIDs, a \in TransitAddrs :
            Target(p, a) # ZeroAddr => \E r \in RegThreads : nid[r] = p /\ a \in seen[r])
    /\ [][\A p \in NodeIDs, a \in TransitAddrs :
            transitIPTarget(transitIPs', p, a) # Target(p, a) =>
                \E t \in RegThreads :
                    pc[t] = "store" /\ pc'[t] = "loop" /\ nid[t] = p]_vars

\* C7 witness: two peers have each registered the same transit address and
\* each still has its own, different destination
C7_Witness ==
    \E r1, r2 \in RegThreads, a \in TransitAddrs :
        /\ pc[r1] = "done" /\ pc[r2] = "done"
        /\ nid[r1] # nid[r2]
        /\ a \in seen[r1] /\ a \in seen[r2]
        /\ Target(nid[r1], a) = FirstDest(ctipr[r1], a)
        /\ Target(nid[r2], a) = FirstDest(ctipr[r2], a)
        /\ Target(nid[r1], a) # Target(nid[r2], a)

\* every Register goroutine has returned; their peers are pairwise distinct,
\* their transit addresses pairwise disjoint, and no batch repeats an address
DisjointAllReturned ==
    /\ \A r \in RegThreads : pc[r] = "done"
    /\ \A r \in RegThreads : \A j \in 1..Len(ctipr[r]) : ~IsDup(ctipr[r], j)
    /\ \A r1, r2 \in RegThreads :
          r1 # r2 => (nid[r1] # nid[r2] /\ Tips(ctipr[r1]) \cap Tips(ctipr[r2]) = {})

\* C8: when all goroutines have registered disjoint peers with disjoint transit
\* addresses, every outcome is OK and the registry is exactly the union of the
\* submitted mappings: one map per peer that sent an entry, holding its entries.
C8_DisjointConcurrentUnion ==
    DisjointAllReturned =>
        /\ \A r \in RegThreads : \A j \in 1..Len(resp[r]) : resp[r][j] = RespOK
        /\ \A r \in RegThreads : Len(resp[r]) = Len(ctipr[r])
        /\ DOMAIN transitIPs.m = {nid[r] : r \in {x \in RegThreads : ctipr[x] # <<>>}}
        /\ \A r \in RegThreads :
              ctipr[r] # <<>> =>
                  transitIPs.m[nid[r]] = [a \in Tips(ctipr[r]) |-> FirstDest(ctipr[r], a)]

\* C8 witness: all goroutines ran concurrently on non-empty disjoint batches
C8_Witness ==
    /\ DisjointAllReturned
    /\ \A r \in RegThreads : ctipr[r] # <<>> /\ ~alone[r]
    /\ \A r1, r2 \in RegThreads : r1 # r2 => pre[r1] # pre[r2]

\* C9: a Lookup returns a non-absent destination D for (P,T) only if a
\* Register call for P has stored a non-duplicate entry (T,D); before that,
\* also on the nil map, it returns the zero address.
C9_LookupOnlyReturnsRegistered ==
    \A l \in LookThreads :
        pc[l] = "returned" =>
            /\ ret[l] # ZeroAddr =>
                  \E r \in RegThreads :
                      /\ nid[r] = nid[l]
                      /\ tip[l] \in seen[r]
                      /\ FirstDest(ctipr[r], tip[l]) = ret[l]
            /\ (\A r \in RegThreads : nid[r] = nid[l] => tip[l] \notin Tips(ctipr[r]))
                  => ret[l] = ZeroAddr

\* C9 witness: a Lookup has returned a destination that its peer registered,
\* while another peer's map holds nothing for that address
C9_Witness ==
    \E l \in LookThreads :
        /\ pc[l] = "returned"
        /\ ret[l] # ZeroAddr
        /\ \E p \in NodeIDs \ {nid[l]} : Target(p, tip[l]) = ZeroAddr

\* C10: a Register call with an empty batch returns an empty outcome list and
\* never stores: with no other call running the registry stays as the call
\* found it, no map is made for the peer.
C10_EmptyBatchNoEffect ==
    \A r \in RegThreads :
        (pc[r] # "idle" /\ ctipr[r] = <<>>) =>
            /\ pc[r] # "store"
            /\ resp[r] = <<>>
            /\ alone[r] => transitIPs = pre[r]

\* C10 witness: an empty batch has returned on a registry that holds maps of
\* other peers only, and the caller's peer still has no map
C10_Witness ==
    \E r \in RegThreads :
        /\ pc[r] = "done" /\ alone[r]
        /\ ctipr[r] = <<>> /\ resp[r] = <<>>
        /\ ~transitIPs.isNil
        /\ nid[r] \notin DOMAIN transitIPs.m

\* the positions of a response list that carry OtherFailure
Failures(rs) == {j \in 1..Len(rs) : rs[j].Code = OtherFailure}
\* the entries of a request that repeat an earlier transit address
DupIdx(req) == {j \in 1..Len(req) : IsDup(req, j)}

\* C11 (as stated): a batch that contains a duplicate transit address yields
\* exactly one OtherFailure outcome, at the later duplicate, and OK elsewhere.
C11_ExactlyOneFailure ==
    \A r \in RegThreads :
        (pc[r] = "done" /\ DupIdx(ctipr[r]) # {}) =>
            Cardinality(Failures(resp[r])) = 1

\* C11 (amended): a batch yields one OtherFailure outcome for every entry that
\* repeats an earlier transit address of the batch (exactly one when exactly one
\* entry does), at the positions of those entries, with OK for all the others;
\* the mapping state reflects only the non-duplicate applications.
C11_OneFailurePerRepeat ==
    \A r \in RegThreads :
        pc[r] = "done" =>
            /\ Failures(resp[r]) = DupIdx(ctipr[r])
            /\ Cardinality(Failures(resp[r]))
                  = Len(ctipr[r]) - Cardinality(Tips(ctipr[r]))
            /\ \A j \in (1..Len(resp[r])) \ Failures(resp[r]) : resp[r][j] = RespOK
            /\ alone[r] =>
                  \A a \in Tips(ctipr[r]) : Target(nid[r], a) = FirstDest(ctipr[r], a)

\* C11 witness: a returned batch with one transit address three times, with
\* three destinations, has two OtherFailure outcomes and the first destination
C11_Witness ==
    \E r \in RegThreads :
        /\ pc[r] = "done" /\ alone[r]
        /\ Len(ctipr[r]) = 3
        /\ Cardinality(Tips(ctipr[r])) = 1
        /\ ctipr[r][2].DestinationIP # ctipr[r][1].DestinationIP
        /\ Failures(resp[r]) = {2, 3}
        /\ Target(nid[r], ctipr[r][1].TransitIP) = ctipr[r][1].DestinationIP

\* C12: in every outcome the message is empty exactly when the code is OK; an
\* OtherFailure outcome carries the duplicate-transit-address message.
C12_MessageEmptyIffOK ==
    \A r \in RegThreads :
        \A j \in 1..Len(resp[r]) :
            /\ (resp[r][j].Message = "") <=> (resp[r][j].Code = OK)
            /\ resp[r][j].Code \in {OK, OtherFailure}
            /\ resp[r][j].Code = OtherFailure =>
                  resp[r][j].Message
                      = "Duplicate transit address in ConnectorTransitIPRequest"

\* C12 witness: a returned response holds an OK and an OtherFailure outcome
C12_Witness ==
    \E r \in RegThreads :
        /\ pc[r] = "done"
        /\ \E i, j \in 1..Len(resp[r]) :
              /\ resp[r][i].Code = OK /\ resp[r][i].Message = ""
              /\ resp[r][j].Code = OtherFailure /\ resp[r][j].Message # ""

\* C14: a rejected duplicate neither undoes the entries stored before it nor
\* stops the loop: every entry processed so far that is no repeat is stored and
\* answered OK, also after a rejection, and the call ends only when every
\* entry of the batch has been processed.
C14_NoAbortNoRollback ==
    \A r \in RegThreads :
        /\ pc[r] # "idle" =>
              /\ Len(resp[r]) = idx[r] - 1
              /\ \A j \in 1..(idx[r] - 1) :
                  ~IsDup(ctipr[r], j) =>
                      /\ resp[r][j] = RespOK
                      /\ ctipr[r][j].TransitIP \in seen[r]
                      /\ alone[r] =>
                            Target(nid[r], ctipr[r][j].TransitIP)
                                = ctipr[r][j].DestinationIP
        /\ pc[r] = "done" => idx[r] = Len(ctipr[r]) + 1

\* C14 witness: in a returned batch fresh, repeated, fresh the entry after the
\* rejected one is stored and answered OK, and the first entry is still stored
C14_Witness ==
    \E r \in RegThreads :
        /\ pc[r] = "done" /\ alone[r]
        /\ Len(ctipr[r]) = 3
        /\ IsDup(ctipr[r], 2) /\ ~IsDup(ctipr[r], 3)
        /\ ctipr[r][2].DestinationIP # ctipr[r][1].DestinationIP
        /\ resp[r][2] = RespDupe /\ resp[r][3] = RespOK
        /\ Target(nid[r], ctipr[r][1].TransitIP) = ctipr[r][1].DestinationIP
        /\ Target(nid[r], ctipr[r][3].TransitIP) = ctipr[r][3].DestinationIP

\* the transit addresses stored so far by calls for peer p
StoredFor(p) == UNION {seen[r] : r \in {x \in RegThreads : nid[x] = p}}

\* C15: a peer has a map exactly when an entry has been stored for it, that
\* map is never empty and holds exactly the addresses stored for the peer; no
\* step removes a peer's map or a key of it.
C15_LazySubmapsOnlyGrow ==
    /\ [](/\ \A p \in NodeIDs : (p \in DOMAIN transitIPs.m) <=> (StoredFor(p) # {})
          /\ \A p \in DOMAIN transitIPs.m :
                DOMAIN transitIPs.m[p] # {} /\ DOMAIN transitIPs.m[p] = StoredFor(p)
          /\ transitIPs.isNil <=> (DOMAIN transitIPs.m = {}))
    /\ [][\A p \in DOMAIN transitIPs.m :
              /\ p \in DOMAIN transitIPs'.m
              /\ DOMAIN transitIPs.m[p] \subseteq DOMAIN transitIPs'.m[p]]_vars

\* C15 witness: one peer has a map with two keys, another peer has none, though
\* a call for it has returned
C15_Witness ==
    \E p, q \in NodeIDs :
        /\ p \in DOMAIN transitIPs.m
        /\ Cardinality(DOMAIN transitIPs.m[p]) = 2
        /\ q \notin DOMAIN transitIPs.m
        /\ \E r \in RegThreads : pc[r] = "done" /\ nid[r] = q

\* the goroutines that are between Lock and Unlock, reading or writing the maps
InCritical == {t \in Threads : pc[t] \in {"store", "read"}}

\* C16: at most one goroutine is reading or writing the maps, and it holds c.mu;
\* c.mu is held by nobody else.
C16_MutualExclusion ==
    /\ Cardinality(InCritical) <= 1
    /\ \A t \in InCritical : mu = t
    /\ mu # NoThread => mu \in InCritical

\* C16 witness: a Register goroutine holds the lock while the other Register
\* goroutine and a Lookup goroutine both wait for it
C16_Witness ==
    \E t \in RegThreads, u \in RegThreads, l \in LookThreads :
        /\ u # t
        /\ pc[t] = "store" /\ mu = t
        /\ pc[l] = "lock"
        /\ pc[u] = "loop" /\ idx[u] <= Len(ctipr[u])
        /\ ctipr[u][idx[u]].TransitIP \notin seen[u]

\* C18: no step of a transitIPTarget call changes the registry: not the nil
\* outer map, not a peer's map, not an entry.
C18_LookupIsReadOnly ==
    [][(\E l \in LookThreads : pc'[l] # pc[l]) => transitIPs' = transitIPs]_vars

\* C18 witness: a Lookup for a peer without a map has returned the zero
\* address and the peer still has no map, while another peer has one
C18_Witness ==
    \E l \in LookThreads :
        /\ pc[l] = "returned" /\ ret[l] = ZeroAddr
        /\ ~transitIPs.isNil
        /\ nid[l] \notin DOMAIN transitIPs.m

\* the transit addresses of a request, in order
TipSeq(req) == [j \in 1..Len(req) |-> req[j].TransitIP]

\* C19: the response depends on the sequence of transit addresses of the batch
\* only: two returned calls with the same sequence have the same response,
\* whatever their peers, destinations, the registry they found and the calls
\* they ran with.
C19_ResponseFromOwnBatchOnly ==
    \A r1, r2 \in RegThreads :
        (pc[r1] = "done" /\ pc[r2] = "done" /\ TipSeq(ctipr[r1]) = TipSeq(ctipr[r2]))
            => resp[r1] = resp[r2]

\* C19 witness: two returned calls with the same address sequence, one peer,
\* different destinations, the second on the registry the first has written
C19_Witness ==
    \E r1, r2 \in RegThreads :
        /\ Later(r1, r2)
        /\ Len(ctipr[r1]) = 2
        /\ TipSeq(ctipr[r1]) = TipSeq(ctipr[r2])
        /\ ctipr[r1] # ctipr[r2]
        /\ pre[r1] # pre[r2]
        /\ resp[r1] = resp[r2]

\* C17: under fair scheduling every Register call and every Lookup call that
\* has begun returns, whatever runs beside it; a held lock is released; the
\* holder of the lock is never itself waiting for the lock.
C17_EveryCallReturns ==
    /\ \A r \in RegThreads : InRequest(r) ~> (pc[r] = "done")
    /\ \A l \in LookThreads : (pc[l] \in {"lock", "read"}) ~> (pc[l] = "returned")
    /\ (mu # NoThread) ~> (mu = NoThread)
    /\ [](\A t \in Threads : mu = t => pc[t] \notin {"loop", "lock"})

\* C17 witness: all Register calls, run concurrently on batches of two entries,
\* and a Lookup have returned and the lock is free
C17_Witness ==
    /\ \A r \in RegThreads : pc[r] = "done" /\ Len(ctipr[r]) = 2 /\ ~alone[r]
    /\ \A l \in LookThreads : pc[l] = "returned"
    /\ mu = NoThread

\* the chain holds one of the four closed or broken pipe/socket conditions
ClosedCondition(os, err) ==
    \E i \in 1..Len(err) :
        err[i] \in {IF os = "windows" THEN "ERROR_NO_DATA" ELSE "EPIPE",
                    "ENOTCONN", "fs.ErrClosed", "io.ErrClosedPipe"}

====
